---- MODULE Spec2Model ----
(***************************************************************************)
(* State-machine model of timetable_solver.py: the Timetable container     *)
(* with its three conflict indices, the FinalFixSolver constructor (input  *)
(* normalisation, variable and domain construction) and the recursive      *)
(* backtracking search driven by solve().                                  *)
(*                                                                         *)
(* Entity records keep the fields the solver reads:                        *)
(*   Course      [id, type]                                                *)
(*   Instructor  [id, unavailable_days, qualified_courses]   (lists)       *)
(*   Room        [id, type]                                                *)
(*   Section     [id, courses]                               (list)        *)
(*   TimeSlot    [id, day]                                                 *)
(* An Assignment holds references to its TimeSlot, Room and Instructor     *)
(* objects; the model stores their ids, which are unique in every input.   *)
(* Python lists are sequences, dicts are functions over their key set, and *)
(* a defaultdict(set) is a function whose key set grows on every lookup.   *)
(***************************************************************************)
EXTENDS Integers, Sequences, FiniteSets, TLC

VARIABLES
    pc,                \* position of the host program
    courses,           \* the caller's list of Course records
    instructors,       \* the caller's list of Instructor records (mutated by the constructor)
    rooms,             \* the caller's list of Room records (mutated by the constructor)
    sections,          \* the caller's list of Section records
    time_slots,        \* the caller's list of TimeSlot records
    variables,         \* self.variables
    domains,           \* self.domains
    backtracks,        \* self.backtracks
    assignments_tried, \* self.assignments_tried
    max_backtracks,    \* parameter of the running backtracking_search
    attempt,           \* loop variable of solve()
    timetable,         \* the Timetable object the search mutates
    stack,             \* frames of the recursive function backtrack
    result,            \* value returned by solve()
    verdict,           \* outcome of the latest consistency check
    run,               \* number of solver constructions on these entity records
    prev_result,       \* what solve() returned in the previous run on these records
    last_call,         \* latest direct call on the Timetable and its pre-state
    metrics,           \* PerformanceTracker.metrics
    calls,             \* calls made so far by the running backtracking_search
    ui                 \* the TimetableUI: current_timetable, last choice and output

vars == <<pc, courses, instructors, rooms, sections, time_slots, variables,
          domains, backtracks, assignments_tried, max_backtracks, attempt,
          timetable, stack, result, verdict, run, prev_result, last_call,
          metrics, calls, ui>>

-----------------------------------------------------------------------------
(* Program constants *)

DAY_CAP == 55

ROOM_PROMOTION_N == 20

QUALIFICATION_FANOUT == 3

MAX_BACKTRACKS == 100000

MAX_ATTEMPTS == 3

LAB_COURSES == {"PHY113", "PHY123", "CHM113", "ECE111", "ECE223", "ECE214", "CNC222"}

MISSING_COURSES == <<"LRA401", "LRA101", "LRA103", "LRA403", "LRA106">>

INSTRUCTOR_PREFIXES ==
    <<"PROF27", "PROF28", "PROF29", "PROF30", "PROF31", "PROF32", "PROF33",
      "PROF34", "PROF35">>

\* None, where a variable is expected
NoVariable == <<>>

-----------------------------------------------------------------------------
(* Bounds of the model *)

\* solver constructions on one set of entity records
MaxRuns == 2

\* time slots of a small instance
MaxSlots == 2

\* courses of one section of a small instance
MaxCourses == 2

\* length of the assignment list under direct calls on a Timetable
MaxAssignments == 2

\* length of the assignment list of a Timetable handed to the evaluator
MaxListed == 3

\* largest max_backtracks a host passes to backtracking_search itself
MaxBudget == 2

\* longest wall time of a solve(), in whole units
MaxElapsed == 2

-----------------------------------------------------------------------------
(* Python primitives *)

\* x in lst
InList(x, lst) == \E i \in DOMAIN lst : lst[i] = x

\* sub in s, for strings
Contains(sub, s) ==
    \E i \in 1..(Len(s) - Len(sub) + 1) : SubSeq(s, i, i + Len(sub) - 1) = sub

\* [x for x in lst if x != y]
Without(lst, y) == SelectSeq(lst, LAMBDA x : x # y)

\* index of the first element equal to x (list.index)
FirstIndex(lst, x) == CHOOSE i \in DOMAIN lst :
    /\ lst[i] = x
    /\ \A j \in 1..(i - 1) : lst[j] # x

\* list.remove(x) when x is present: drops the first equal element
RemoveFirst(lst, x) ==
    LET i == FirstIndex(lst, x)
    IN  SubSeq(lst, 1, i - 1) \o SubSeq(lst, i + 1, Len(lst))

\* number of elements of lst before position i that satisfy the index set
RankIn(idx, i) == Cardinality({j \in idx : j < i})

\* d[k] = v on a dict
DictSet(d, k, v) == [x \in DOMAIN d \cup {k} |-> IF x = k THEN v ELSE d[x]]

\* del d[k] when k is present
DictDel(d, k) == [x \in DOMAIN d \ {k} |-> d[x]]

\* defaultdict(set): a lookup d[k] inserts k with an empty set when missing
DDTouch(d, k) == IF k \in DOMAIN d THEN d ELSE DictSet(d, k, {})

\* the set a lookup d[k] yields
DDGet(d, k) == IF k \in DOMAIN d THEN d[k] ELSE {}

-----------------------------------------------------------------------------
(* Timetable *)

Timetable ==
    [assignments         |-> <<>>,
     assignment_dict     |-> <<>>,
     instructor_schedule |-> <<>>,
     room_schedule       |-> <<>>,
     section_schedule    |-> <<>>]

Key(a) == <<a.section_id, a.course_id>>

\* add_assignment without the statement on section_schedule
add_assignment_no_section_index(tt, a) ==
    [assignments         |-> Append(tt.assignments, a),
     assignment_dict     |-> DictSet(tt.assignment_dict, Key(a), a),
     instructor_schedule |-> DictSet(tt.instructor_schedule, a.instructor,
                                DDGet(tt.instructor_schedule, a.instructor) \cup {a.time_slot}),
     room_schedule       |-> DictSet(tt.room_schedule, a.room,
                                DDGet(tt.room_schedule, a.room) \cup {a.time_slot}),
     section_schedule    |-> tt.section_schedule]

add_assignment(tt, a) ==
    [assignments         |-> Append(tt.assignments, a),
     assignment_dict     |-> DictSet(tt.assignment_dict, Key(a), a),
     instructor_schedule |-> DictSet(tt.instructor_schedule, a.instructor,
                                DDGet(tt.instructor_schedule, a.instructor) \cup {a.time_slot}),
     room_schedule       |-> DictSet(tt.room_schedule, a.room,
                                DDGet(tt.room_schedule, a.room) \cup {a.time_slot}),
     section_schedule    |-> DictSet(tt.section_schedule, a.section_id,
                                DDGet(tt.section_schedule, a.section_id) \cup {a.time_slot})]

\* remove_assignment without the statement on room_schedule
remove_assignment_keeps_room(tt, a) ==
    LET t1 == [tt EXCEPT !.assignments = RemoveFirst(@, a)]
        t2 == [t1 EXCEPT !.assignment_dict = DictDel(@, Key(a))]
        t3a == [t2 EXCEPT !.instructor_schedule = DDTouch(@, a.instructor)]
        t3 == [t3a EXCEPT !.instructor_schedule[a.instructor] = @ \ {a.time_slot}]
        t5a == [t3 EXCEPT !.section_schedule = DDTouch(@, a.section_id)]
        t5 == [t5a EXCEPT !.section_schedule[a.section_id] = @ \ {a.time_slot}]
    IN  IF ~InList(a, tt.assignments)
          THEN [tt |-> tt, raised |-> "ValueError"]
        ELSE IF Key(a) \notin DOMAIN t1.assignment_dict
          THEN [tt |-> t1, raised |-> "KeyError"]
        ELSE IF a.time_slot \notin t3a.instructor_schedule[a.instructor]
          THEN [tt |-> t3a, raised |-> "KeyError"]
        ELSE IF a.time_slot \notin t5a.section_schedule[a.section_id]
          THEN [tt |-> t5a, raised |-> "KeyError"]
        ELSE [tt |-> t5, raised |-> ""]

\* remove_assignment runs five statements in order; the first one that raises
\* ends the call and keeps the effects of the statements before it.
\* Yields the timetable after the call and the exception raised ("" for none).
remove_assignment(tt, a) ==
    LET t1 == [tt EXCEPT !.assignments = RemoveFirst(@, a)]
        t2 == [t1 EXCEPT !.assignment_dict = DictDel(@, Key(a))]
        t3a == [t2 EXCEPT !.instructor_schedule = DDTouch(@, a.instructor)]
        t3 == [t3a EXCEPT !.instructor_schedule[a.instructor] = @ \ {a.time_slot}]
        t4a == [t3 EXCEPT !.room_schedule = DDTouch(@, a.room)]
        t4 == [t4a EXCEPT !.room_schedule[a.room] = @ \ {a.time_slot}]
        t5a == [t4 EXCEPT !.section_schedule = DDTouch(@, a.section_id)]
        t5 == [t5a EXCEPT !.section_schedule[a.section_id] = @ \ {a.time_slot}]
    IN  IF ~InList(a, tt.assignments)
          THEN [tt |-> tt, raised |-> "ValueError"]
        ELSE IF Key(a) \notin DOMAIN t1.assignment_dict
          THEN [tt |-> t1, raised |-> "KeyError"]
        ELSE IF a.time_slot \notin t3a.instructor_schedule[a.instructor]
          THEN [tt |-> t3a, raised |-> "KeyError"]
        ELSE IF a.time_slot \notin t4a.room_schedule[a.room]
          THEN [tt |-> t4a, raised |-> "KeyError"]
        ELSE IF a.time_slot \notin t5a.section_schedule[a.section_id]
          THEN [tt |-> t5a, raised |-> "KeyError"]
        ELSE [tt |-> t5, raised |-> ""]

-----------------------------------------------------------------------------
(* FinalFixSolver.__init__ *)

\* _fix_room_types that promotes the labs among the first 20 rooms
_fix_room_types_by_position(rs) ==
    LET classroom_rooms == {i \in DOMAIN rs : rs[i].type = "Classroom"}
    IN  IF Cardinality(classroom_rooms) = 0
          THEN [i \in DOMAIN rs |->
                  IF rs[i].type = "Lab" /\ i <= ROOM_PROMOTION_N
                    THEN [rs[i] EXCEPT !.type = "Classroom"]
                    ELSE rs[i]]
          ELSE rs

\* _fix_room_types without its guard on the number of classrooms
_fix_room_types_unguarded(rs) ==
    LET lab_rooms == {i \in DOMAIN rs : rs[i].type = "Lab"}
    IN  [i \in DOMAIN rs |->
           IF i \in lab_rooms /\ RankIn(lab_rooms, i) < ROOM_PROMOTION_N
             THEN [rs[i] EXCEPT !.type = "Classroom"]
             ELSE rs[i]]

\* If the list has no Classroom, the first 20 Lab rooms become Classrooms.
_fix_room_types(rs) ==
    LET lab_rooms       == {i \in DOMAIN rs : rs[i].type = "Lab"}
        classroom_rooms == {i \in DOMAIN rs : rs[i].type = "Classroom"}
    IN  IF Cardinality(classroom_rooms) = 0
          THEN [i \in DOMAIN rs |->
                  IF i \in lab_rooms /\ RankIn(lab_rooms, i) < ROOM_PROMOTION_N
                    THEN [rs[i] EXCEPT !.type = "Classroom"]
                    ELSE rs[i]]
          ELSE rs

\* any(prefix in instr.id for prefix in [...])
IsSuitable(instr) ==
    \E p \in DOMAIN INSTRUCTOR_PREFIXES : Contains(INSTRUCTOR_PREFIXES[p], instr.id)

\* the iteration without its test that the course is not listed yet
AddQualification_appends_again(ins, course_id) ==
    LET suitable == {i \in DOMAIN ins : IsSuitable(ins[i])}
    IN  [i \in DOMAIN ins |->
           IF i \in suitable /\ RankIn(suitable, i) < QUALIFICATION_FANOUT
             THEN [ins[i] EXCEPT !.qualified_courses = Append(@, course_id)]
             ELSE ins[i]]

\* One iteration of the loop over missing_courses: the first three suitable
\* instructors get course_id appended unless they already list it.
AddQualification(ins, course_id) ==
    LET suitable == {i \in DOMAIN ins : IsSuitable(ins[i])}
    IN  [i \in DOMAIN ins |->
           IF /\ i \in suitable
              /\ RankIn(suitable, i) < QUALIFICATION_FANOUT
              /\ ~InList(course_id, ins[i].qualified_courses)
             THEN [ins[i] EXCEPT !.qualified_courses = Append(@, course_id)]
             ELSE ins[i]]

RECURSIVE FixFrom(_, _)
FixFrom(ins, k) ==
    IF k > Len(MISSING_COURSES) THEN ins
    ELSE FixFrom(AddQualification(ins, MISSING_COURSES[k]), k + 1)

_fix_instructor_qualifications(ins) == FixFrom(ins, 1)

\* for section in sections: for course_id in section.courses: append
RECURSIVE _create_variables_from(_, _)
_create_variables_from(secs, k) ==
    IF k > Len(secs) THEN <<>>
    ELSE [j \in DOMAIN secs[k].courses |-> <<secs[k].id, secs[k].courses[j]>>]
         \o _create_variables_from(secs, k + 1)

_create_variables(secs) == _create_variables_from(secs, 1)

\* self.courses[course_id]
CourseOf(cs, course_id) == cs[CHOOSE i \in DOMAIN cs : cs[i].id = course_id]

\* course_id in lab_courses or 'Lab' in course.type
IsLabCourse(cs, course_id) ==
    course_id \in LAB_COURSES \/ Contains("Lab", CourseOf(cs, course_id).type)

\* RequiredRoomType that consults the lab-course set only
RequiredRoomTypeByIdOnly(cs, course_id) ==
    IF course_id \in LAB_COURSES THEN "Lab" ELSE "Classroom"

RequiredRoomType(cs, course_id) ==
    IF IsLabCourse(cs, course_id) THEN "Lab" ELSE "Classroom"

SuitableRooms(cs, rs, course_id) ==
    SelectSeq(rs, LAMBDA r : r.type = RequiredRoomType(cs, course_id))

QualifiedInstructors(ins, course_id) ==
    SelectSeq(ins, LAMBDA i : InList(course_id, i.qualified_courses))

\* Available without the filter on the instructor's days
AlwaysAvailable(ts, instr) == TRUE

\* the filter of the innermost loop
Available(ts, instr) == ~InList(ts.day, instr.unavailable_days)

\* Product with the loop over rooms outermost and the time slots next
Product_rooms_outermost(tss, srooms, qins) ==
    LET n == Len(tss)
        k == Len(qins)
        all == [p \in 1..(Len(srooms) * n * k) |->
                  <<tss[(((p - 1) \div k) % n) + 1],
                    srooms[((p - 1) \div (n * k)) + 1],
                    qins[((p - 1) % k) + 1]>>]
        kept == SelectSeq(all, LAMBDA t : Available(t[1], t[3]))
    IN  [p \in DOMAIN kept |-> <<kept[p][1].id, kept[p][2].id, kept[p][3].id>>]

\* The three nested loops: time slots outermost, rooms next, instructors
\* innermost; a triple holds the ids of the three objects.
Product(tss, srooms, qins) ==
    LET m == Len(srooms)
        k == Len(qins)
        all == [p \in 1..(Len(tss) * m * k) |->
                  <<tss[((p - 1) \div (m * k)) + 1],
                    srooms[(((p - 1) \div k) % m) + 1],
                    qins[((p - 1) % k) + 1]>>]
        kept == SelectSeq(all, LAMBDA t : Available(t[1], t[3]))
    IN  [p \in DOMAIN kept |-> <<kept[p][1].id, kept[p][2].id, kept[p][3].id>>]

DomainOf(cs, ins, rs, tss, var) ==
    LET suitable_rooms        == SuitableRooms(cs, rs, var[2])
        qualified_instructors == QualifiedInstructors(ins, var[2])
    IN  IF Len(qualified_instructors) = 0 THEN <<>>
        ELSE IF Len(suitable_rooms) = 0 THEN <<>>
        ELSE Product(tss, suitable_rooms, qualified_instructors)

_precompute_domains_final(cs, ins, rs, tss, vs) ==
    [var \in {vs[i] : i \in DOMAIN vs} |-> DomainOf(cs, ins, rs, tss, var)]

-----------------------------------------------------------------------------
(* PerformanceTracker *)

\* self.metrics after __init__; success_rate is kept as a fraction
PerformanceTracker ==
    [generation_time            |-> 0,
     hard_constraint_violations |-> 0,
     soft_constraint_violations |-> 0,
     success_rate               |-> [num |-> 0, den |-> 1],
     total_assignments          |-> 0,
     total_variables            |-> 0]

\* sum of the values of a function with a finite domain
RECURSIVE Sum(_)
Sum(f) ==
    IF DOMAIN f = {} THEN 0
    ELSE LET k == CHOOSE x \in DOMAIN f : TRUE
         IN  f[k] + Sum([x \in DOMAIN f \ {k} |-> f[x]])

\* One pass of _count_hard_constraint_violations: the Assignments are grouped
\* by an id (ids[i] is the id of lst[i]); a group whose list of slot ids is
\* longer than the set of them adds the difference.
GroupViolations(lst, ids) ==
    LET group(k)  == {i \in DOMAIN lst : ids[i] = k}
        len(k)    == Cardinality(group(k))
        lenset(k) == Cardinality({lst[i].time_slot : i \in group(k)})
    IN  Sum([k \in {ids[i] : i \in DOMAIN lst} |->
                IF len(k) # lenset(k) THEN len(k) - lenset(k) ELSE 0])

\* _count_hard_constraint_violations that adds one for a group with a repeat
_count_hard_constraint_violations_per_group(tt) ==
    LET lst == tt.assignments
        one(ids) ==
            Cardinality({k \in {ids[i] : i \in DOMAIN lst} :
                \E i, j \in DOMAIN lst :
                    /\ i # j
                    /\ ids[i] = k
                    /\ ids[j] = k
                    /\ lst[i].time_slot = lst[j].time_slot})
    IN  one([i \in DOMAIN lst |-> lst[i].instructor])
          + one([i \in DOMAIN lst |-> lst[i].room])
          + one([i \in DOMAIN lst |-> lst[i].section_id])

\* the instructor pass, the room pass and the section pass
_count_hard_constraint_violations(tt) ==
    LET lst == tt.assignments
    IN  GroupViolations(lst, [i \in DOMAIN lst |-> lst[i].instructor])
          + GroupViolations(lst, [i \in DOMAIN lst |-> lst[i].room])
          + GroupViolations(lst, [i \in DOMAIN lst |-> lst[i].section_id])

-----------------------------------------------------------------------------
(* Lookups through the references an Assignment holds *)

SlotOf(id)       == time_slots[CHOOSE i \in DOMAIN time_slots : time_slots[i].id = id]
RoomOf(id)       == rooms[CHOOSE i \in DOMAIN rooms : rooms[i].id = id]
InstructorOf(id) == instructors[CHOOSE i \in DOMAIN instructors : instructors[i].id = id]

-----------------------------------------------------------------------------
(* PerformanceTracker: the soft pass and evaluate_solution *)

\* the characters of day names and times of day, in code point order
Ascii == " 0123456789:ABCDEFGHIJKLMNOPQRSTUVWXYZabcdefghijklmnopqrstuvwxyz"

\* rank of a character in code point order
ord(c) == CHOOSE i \in 1..Len(Ascii) : SubSeq(Ascii, i, i) = c

\* s < t on str: by the first character that differs, a proper prefix first
RECURSIVE StrLess(_, _)
StrLess(s, t) ==
    IF Len(t) = 0 THEN FALSE
    ELSE IF Len(s) = 0 THEN TRUE
    ELSE IF SubSeq(s, 1, 1) = SubSeq(t, 1, 1)
           THEN StrLess(SubSeq(s, 2, Len(s)), SubSeq(t, 2, Len(t)))
           ELSE ord(SubSeq(s, 1, 1)) < ord(SubSeq(t, 1, 1))

\* pd.to_datetime(text).hour for a time of day written "H:MM" or "HH:MM"
hour(text) ==
    LET digit(i) == ord(SubSeq(text, i, i)) - ord("0")
    IN  IF SubSeq(text, 2, 2) = ":" THEN digit(1) ELSE 10 * digit(1) + digit(2)

\* the sort key (x.time_slot.day, x.time_slot.start_time) of a is less than
\* that of b: tuples of str, compared item by item
KeyLess(a, b) ==
    LET x == SlotOf(a.time_slot)
        y == SlotOf(b.time_slot)
    IN  IF x.day # y.day THEN StrLess(x.day, y.day)
                         ELSE StrLess(x.start_time, y.start_time)

\* list.sort(key = ...): ascending by key, entries of equal key in their
\* original order
RECURSIVE sort(_)
sort(lst) ==
    IF Len(lst) <= 1 THEN lst
    ELSE LET s == sort(SubSeq(lst, 1, Len(lst) - 1))
             x == lst[Len(lst)]
             p == Cardinality({i \in DOMAIN s : ~KeyLess(x, s[i])})
         IN  SubSeq(s, 1, p) \o <<x>> \o SubSeq(s, p + 1, Len(s))

\* section_assignments[section]: the list the soft pass builds for a section
section_assignments(lst, section) ==
    LET of_section(a) == a.section_id = section
    IN  SelectSeq(lst, of_section)

\* the soft pass, were it to sort the Timetable's own list
_count_soft_constraint_violations_sorts_timetable(tt) ==
    [violations |-> 0, tt |-> [tt EXCEPT !.assignments = sort(@)]]

\* _count_soft_constraint_violations: one per Assignment that starts before 8
\* or after 18, one per section on fewer than 2 days, a half per pair of
\* neighbours in the section's sorted list that share the day and differ in
\* room; int() of the total. The sorted lists are the pass's own, so the
\* Timetable it returns with is the one it was given.
_count_soft_constraint_violations(tt) ==
    LET lst       == tt.assignments
        off_hours == {i \in DOMAIN lst :
                         LET h == hour(SlotOf(lst[i].time_slot).start_time)
                         IN  h < 8 \/ h > 18}
        days(l)   == Cardinality({SlotOf(l[i].time_slot).day : i \in DOMAIN l})
        halves(l) == Cardinality({i \in 1..(Len(l) - 1) :
                         /\ SlotOf(l[i].time_slot).day = SlotOf(l[i + 1].time_slot).day
                         /\ l[i].room # l[i + 1].room})
        per(sec)  == LET l == section_assignments(lst, sec)
                     IN  (IF days(l) < 2 THEN 2 ELSE 0) + halves(sort(l))
        doubled   == 2 * Cardinality(off_hours)
                       + Sum([sec \in {lst[i].section_id : i \in DOMAIN lst} |-> per(sec)])
    IN  [violations |-> doubled \div 2, tt |-> tt]

\* self.evaluate_solution(timetable, solver), with self the metrics and
\* vs = solver.variables: the metrics after the call and the Timetable after it
evaluate_solution(self, tt, vs) ==
    LET soft == _count_soft_constraint_violations(tt)
    IN  [metrics |->
           [self EXCEPT
              !.total_assignments          = Len(tt.assignments),
              !.total_variables            = Len(vs),
              !.hard_constraint_violations = _count_hard_constraint_violations(tt),
              !.soft_constraint_violations = soft.violations,
              !.success_rate               = IF Len(vs) # 0
                                               THEN [num |-> Len(tt.assignments), den |-> Len(vs)]
                                               ELSE [num |-> 0, den |-> 1]],
         tt |-> soft.tt]

-----------------------------------------------------------------------------
(* Consistency checks *)

\* _is_consistent without the instructor lookup
_is_consistent_no_instructor(tt, a) ==
    LET t2 == [tt EXCEPT !.room_schedule = DDTouch(@, a.room)]
        t3 == [t2 EXCEPT !.section_schedule = DDTouch(@, a.section_id)]
    IN  IF a.time_slot \in t2.room_schedule[a.room]
          THEN [ok |-> FALSE, why |-> "room", tt |-> t2]
        ELSE IF a.time_slot \in t3.section_schedule[a.section_id]
          THEN [ok |-> FALSE, why |-> "section", tt |-> t3]
        ELSE [ok |-> TRUE, why |-> "ok", tt |-> t3]

\* _is_consistent without the room lookup
_is_consistent_no_room(tt, a) ==
    LET t1 == [tt EXCEPT !.instructor_schedule = DDTouch(@, a.instructor)]
        t3 == [t1 EXCEPT !.section_schedule = DDTouch(@, a.section_id)]
    IN  IF a.time_slot \in t1.instructor_schedule[a.instructor]
          THEN [ok |-> FALSE, why |-> "instructor", tt |-> t1]
        ELSE IF a.time_slot \in t3.section_schedule[a.section_id]
          THEN [ok |-> FALSE, why |-> "section", tt |-> t3]
        ELSE [ok |-> TRUE, why |-> "ok", tt |-> t3]

\* _is_consistent without the section lookup
_is_consistent_no_section(tt, a) ==
    LET t1 == [tt EXCEPT !.instructor_schedule = DDTouch(@, a.instructor)]
        t2 == [t1 EXCEPT !.room_schedule = DDTouch(@, a.room)]
    IN  IF a.time_slot \in t1.instructor_schedule[a.instructor]
          THEN [ok |-> FALSE, why |-> "instructor", tt |-> t1]
        ELSE IF a.time_slot \in t2.room_schedule[a.room]
          THEN [ok |-> FALSE, why |-> "room", tt |-> t2]
        ELSE [ok |-> TRUE, why |-> "ok", tt |-> t2]

\* _is_consistent: three lookups in order, returning at the first conflict.
\* Every lookup goes through the defaultdict and so creates a missing key.
\* Yields the verdict and the timetable as the lookups leave it.
_is_consistent(tt, a) ==
    LET t1 == [tt EXCEPT !.instructor_schedule = DDTouch(@, a.instructor)]
        t2 == [t1 EXCEPT !.room_schedule = DDTouch(@, a.room)]
        t3 == [t2 EXCEPT !.section_schedule = DDTouch(@, a.section_id)]
    IN  IF a.time_slot \in t1.instructor_schedule[a.instructor]
          THEN [ok |-> FALSE, why |-> "instructor", tt |-> t1]
        ELSE IF a.time_slot \in t2.room_schedule[a.room]
          THEN [ok |-> FALSE, why |-> "room", tt |-> t2]
        ELSE IF a.time_slot \in t3.section_schedule[a.section_id]
          THEN [ok |-> FALSE, why |-> "section", tt |-> t3]
        ELSE [ok |-> TRUE, why |-> "ok", tt |-> t3]

\* sum(1 for a in timetable.assignments if a.time_slot.day == day)
day_assignments(tt, day) ==
    Cardinality({i \in DOMAIN tt.assignments :
                    SlotOf(tt.assignments[i].time_slot).day = day})

\* OverDayCap with > in place of >=
OverDayCapStrict(n) == n > DAY_CAP

\* day_assignments >= 55
OverDayCap(n) == n >= DAY_CAP

\* _is_consistent_with_load_balancing that applies the day cap alone
_is_consistent_with_load_balancing_cap_only(tt, a) ==
    IF OverDayCap(day_assignments(tt, SlotOf(a.time_slot).day))
      THEN [ok |-> FALSE, why |-> "day_cap", tt |-> tt]
    ELSE [ok |-> TRUE, why |-> "ok", tt |-> tt]

_is_consistent_with_load_balancing(tt, a) ==
    LET c == _is_consistent(tt, a)
    IN  IF ~c.ok THEN c
        ELSE IF OverDayCap(day_assignments(c.tt, SlotOf(a.time_slot).day))
          THEN [ok |-> FALSE, why |-> "day_cap", tt |-> c.tt]
        ELSE c

\* ScanMin that also replaces the kept variable by one of equal domain size
RECURSIVE ScanMin_last_tie(_, _, _)
ScanMin_last_tie(unassigned, k, best) ==
    IF k > Len(unassigned) THEN best
    ELSE IF best = 0 \/ Len(domains[unassigned[k]]) <= Len(domains[unassigned[best]])
      THEN ScanMin_last_tie(unassigned, k + 1, k)
    ELSE ScanMin_last_tie(unassigned, k + 1, best)

\* _select_next_variable: one pass over the list that keeps the first variable
\* whose domain is strictly smaller than every domain seen before it.
\* best = 0 stands for selected_var = None with min_size = infinity.
RECURSIVE ScanMin(_, _, _)
ScanMin(unassigned, k, best) ==
    IF k > Len(unassigned) THEN best
    ELSE IF best = 0 \/ Len(domains[unassigned[k]]) < Len(domains[unassigned[best]])
      THEN ScanMin(unassigned, k + 1, k)
    ELSE ScanMin(unassigned, k + 1, best)

\* _select_next_variable that takes the first variable of the list
_select_next_variable_first(unassigned) ==
    IF Len(unassigned) = 0 THEN NoVariable ELSE unassigned[1]

_select_next_variable(unassigned) ==
    IF Len(unassigned) = 0 THEN NoVariable
    ELSE unassigned[ScanMin(unassigned, 1, 0)]

\* new_unassigned that keeps the selected variable
new_unassigned_keeps_var(unassigned, var) == unassigned

\* new_unassigned that drops every variable of the section of var
new_unassigned_drop_section(unassigned, var) ==
    SelectSeq(unassigned, LAMBDA v : v[1] # var[1])

\* [v for v in unassigned if v != var]
new_unassigned(unassigned, var) == Without(unassigned, var)

-----------------------------------------------------------------------------
(* Values of the host program *)

Pending      == [kind |-> "pending",   tt |-> Timetable]
NoSolution   == [kind |-> "None",      tt |-> Timetable]
Solution(tt) == [kind |-> "Timetable", tt |-> tt]

NoAssignment ==
    [section_id |-> "", course_id |-> "", time_slot |-> "", room |-> "", instructor |-> ""]

\* the TimetableUI after __init__: no timetable held, no choice made yet
TimetableUI == [current_timetable |-> NoSolution, choice |-> "0", output |-> "none"]

\* no call made yet by a backtracking_search
NoCalls == [add |-> 0, remove |-> 0, loop |-> 0]

NoCall == [op |-> "none", arg |-> NoAssignment, pre |-> Timetable, raised |-> ""]

\* a call backtrack(timetable, unassigned) at its entry; entry records the
\* content of the timetable as the call received it
Frame(unassigned, tt) ==
    [state |-> "enter", unassigned |-> unassigned, var |-> NoVariable, idx |-> 0,
     entry |-> tt]

Top == stack[Len(stack)]

\* the Assignment built from the value at the cursor of a frame
AssignmentOf(f) ==
    LET value == domains[f.var][f.idx]
    IN  [section_id |-> f.var[1], course_id |-> f.var[2],
         time_slot  |-> value[1], room |-> value[2], instructor |-> value[3]]

-----------------------------------------------------------------------------
(* Actions of the solver *)

entities == <<courses, instructors, rooms, sections, time_slots>>
solver   == <<variables, domains>>
counters == <<backtracks, assignments_tried>>
history  == <<run, prev_result>>

\* solver = FinalFixSolver(courses, instructors, rooms, sections, time_slots),
\* on fresh records or on the records an earlier construction has normalised.
\* min(domain_sizes) raises ValueError when there is no variable.
FinalFixSolver ==
    /\ pc \in {"new", "done"}
    /\ run < MaxRuns
    /\ LET rs  == _fix_room_types(rooms)
           ins == _fix_instructor_qualifications(instructors)
           vs  == _create_variables(sections)
       IN  /\ rooms' = rs
           /\ instructors' = ins
           /\ variables' = vs
           /\ domains' = _precompute_domains_final(courses, ins, rs, time_slots, vs)
           /\ pc' = IF Len(vs) = 0 THEN "raised" ELSE "constructed"
    /\ backtracks' = 0
    /\ assignments_tried' = 0
    /\ run' = run + 1
    /\ prev_result' = result
    /\ result' = Pending
    /\ UNCHANGED <<courses, sections, time_slots, max_backtracks, attempt,
                   timetable, stack, verdict, last_call, metrics, calls, ui>>

\* solver.solve(): entry of the loop over range(max_attempts)
solve ==
    /\ pc = "constructed"
    /\ pc' = "solve"
    /\ attempt' = 0
    /\ UNCHANGED <<entities, solver, counters, max_backtracks, timetable, stack,
                   result, verdict, history, last_call, metrics, calls, ui>>

\* backtracking_search that keeps the counters of the previous invocation
backtracking_search_no_reset ==
    /\ pc = "solve"
    /\ attempt < MAX_ATTEMPTS
    /\ max_backtracks' = MAX_BACKTRACKS
    /\ timetable' = Timetable
    /\ stack' = <<Frame(variables, Timetable)>>
    /\ calls' = NoCalls
    /\ pc' = "search"
    /\ UNCHANGED <<entities, solver, counters, attempt, result, verdict, history,
                   last_call, metrics, ui>>

\* One iteration of the loop in solve(): backtracking_search() resets the
\* counters, creates the Timetable and calls backtrack on a copy of the
\* variable list.
backtracking_search ==
    /\ pc = "solve"
    /\ attempt < MAX_ATTEMPTS
    /\ backtracks' = 0
    /\ assignments_tried' = 0
    /\ max_backtracks' = MAX_BACKTRACKS
    /\ timetable' = Timetable
    /\ stack' = <<Frame(variables, Timetable)>>
    /\ calls' = NoCalls
    /\ pc' = "search"
    /\ UNCHANGED <<entities, solver, attempt, result, verdict, history, last_call, metrics, ui>>

\* The loop in solve() is exhausted: return None.
solve_returns_none ==
    /\ pc = "solve"
    /\ attempt >= MAX_ATTEMPTS
    /\ result' = NoSolution
    /\ pc' = "done"
    /\ UNCHANGED <<entities, solver, counters, max_backtracks, attempt, timetable,
                   stack, verdict, history, last_call, metrics, calls, ui>>

\* backtrack_returns_none in which the caller gives up after one failed value
backtrack_returns_none_no_retry ==
    IF Len(stack) = 1
      THEN /\ stack' = <<>>
           /\ IF pc = "search"
                THEN /\ attempt' = attempt + 1
                     /\ pc' = "solve"
                     /\ result' = result
                ELSE /\ attempt' = attempt
                     /\ pc' = "done"
                     /\ result' = NoSolution
           /\ UNCHANGED <<timetable, backtracks, calls>>
      ELSE LET caller == stack[Len(stack) - 1]
               r      == remove_assignment(timetable, AssignmentOf(caller))
           IN  /\ timetable' = r.tt
               /\ calls' = [calls EXCEPT !.remove = @ + 1]
               /\ result' = result
               /\ backtracks' = backtracks + 1
               /\ stack' = [SubSeq(stack, 1, Len(stack) - 1)
                              EXCEPT ![Len(stack) - 1].idx = Len(domains[caller.var]) + 1]
               /\ pc' = pc
               /\ attempt' = attempt

\* backtrack is running, inside a backtracking_search() that solve() called
\* ("search") or that the host called itself with a budget ("direct")
Searching == pc \in {"search", "direct"}

\* The top call of backtrack returns None. Its caller, if any, removes the
\* Assignment it had added, counts a backtrack and moves to its next value;
\* otherwise backtracking_search returns None: solve() goes to its next
\* attempt, a host that called backtracking_search itself receives the None.
backtrack_returns_none ==
    IF Len(stack) = 1
      THEN /\ stack' = <<>>
           /\ IF pc = "search"
                THEN /\ attempt' = attempt + 1
                     /\ pc' = "solve"
                     /\ result' = result
                ELSE /\ attempt' = attempt
                     /\ pc' = "done"
                     /\ result' = NoSolution
           /\ UNCHANGED <<timetable, backtracks, calls>>
      ELSE LET caller == stack[Len(stack) - 1]
               r      == remove_assignment(timetable, AssignmentOf(caller))
           IN  /\ timetable' = r.tt
               /\ calls' = [calls EXCEPT !.remove = @ + 1]
               /\ result' = result
               /\ IF r.raised = ""
                    THEN /\ backtracks' = backtracks + 1
                         /\ stack' = [SubSeq(stack, 1, Len(stack) - 1)
                                        EXCEPT ![Len(stack) - 1].idx = @ + 1]
                         /\ pc' = pc
                    ELSE /\ backtracks' = backtracks
                         /\ stack' = <<>>
                         /\ pc' = "raised"
               /\ attempt' = attempt

\* Entry of backtrack(timetable, unassigned), up to the start of the value loop.
backtrack_enter ==
    /\ Searching
    /\ Top.state = "enter"
    /\ IF Len(Top.unassigned) = 0
         THEN \* return timetable: every caller passes it up, solve() returns it
              /\ result' = Solution(timetable)
              /\ stack' = <<>>
              /\ pc' = "done"
              /\ UNCHANGED <<timetable, backtracks, attempt, calls>>
       ELSE IF backtracks > max_backtracks
         THEN backtrack_returns_none
       ELSE IF _select_next_variable(Top.unassigned) = NoVariable
         THEN backtrack_returns_none
       ELSE /\ stack' = [stack EXCEPT ![Len(stack)] =
                           [@ EXCEPT !.state = "loop", !.idx = 1,
                                     !.var = _select_next_variable(Top.unassigned)]]
            /\ UNCHANGED <<pc, timetable, backtracks, attempt, result, calls>>
    /\ UNCHANGED <<entities, solver, assignments_tried, max_backtracks, verdict,
                   history, last_call, metrics, ui>>

\* One iteration of the value loop that counts the value only once it has
\* passed the check.
backtrack_try_value_counts_consistent ==
    /\ Searching
    /\ Top.state = "loop"
    /\ Top.idx <= Len(domains[Top.var])
    /\ LET new_assignment == AssignmentOf(Top)
           c == _is_consistent_with_load_balancing(timetable, new_assignment)
       IN  /\ verdict' = c.why
           /\ assignments_tried' = IF c.ok THEN assignments_tried + 1
                                           ELSE assignments_tried
           /\ calls' = [calls EXCEPT !.loop = @ + 1,
                                     !.add = IF c.ok THEN @ + 1 ELSE @]
           /\ IF c.ok
                THEN /\ timetable' = add_assignment(c.tt, new_assignment)
                     /\ stack' = Append(stack, Frame(new_unassigned(Top.unassigned, Top.var),
                                                     add_assignment(c.tt, new_assignment)))
                ELSE /\ timetable' = c.tt
                     /\ stack' = [stack EXCEPT ![Len(stack)].idx = @ + 1]
    /\ UNCHANGED <<pc, entities, solver, backtracks, max_backtracks, attempt,
                   result, history, last_call, metrics, ui>>

\* One iteration of "for value in domain": count it, check it, and when it is
\* consistent add it and call backtrack on the remaining variables.
backtrack_try_value ==
    /\ Searching
    /\ Top.state = "loop"
    /\ Top.idx <= Len(domains[Top.var])
    /\ assignments_tried' = assignments_tried + 1
    /\ LET new_assignment == AssignmentOf(Top)
           c == _is_consistent_with_load_balancing(timetable, new_assignment)
       IN  /\ verdict' = c.why
           /\ calls' = [calls EXCEPT !.loop = @ + 1,
                                     !.add = IF c.ok THEN @ + 1 ELSE @]
           /\ IF c.ok
                THEN /\ timetable' = add_assignment(c.tt, new_assignment)
                     /\ stack' = Append(stack, Frame(new_unassigned(Top.unassigned, Top.var),
                                                     add_assignment(c.tt, new_assignment)))
                ELSE /\ timetable' = c.tt
                     /\ stack' = [stack EXCEPT ![Len(stack)].idx = @ + 1]
    /\ UNCHANGED <<pc, entities, solver, backtracks, max_backtracks, attempt,
                   result, history, last_call, metrics, ui>>

\* The value loop is exhausted: return None.
backtrack_exhausted ==
    /\ Searching
    /\ Top.state = "loop"
    /\ Top.idx > Len(domains[Top.var])
    /\ backtrack_returns_none
    /\ UNCHANGED <<entities, solver, assignments_tried, max_backtracks, verdict,
                   history, last_call, metrics, ui>>

\* wall time of a solve(), in whole units
Elapsed == 1..MaxElapsed

\* The host evaluates the Timetable that solve() has returned, which is the
\* search's own object: tracker = PerformanceTracker();
\* tracker.metrics['generation_time'] = end_time - start_time;
\* tracker.evaluate_solution(timetable, solver)
main_evaluate ==
    /\ pc = "done"
    /\ result.kind = "Timetable"
    /\ \E t \in Elapsed :
         LET tracker == [PerformanceTracker EXCEPT !.generation_time = t]
             e       == evaluate_solution(tracker, result.tt, variables)
         IN  /\ metrics' = e.metrics
             /\ result' = [result EXCEPT !.tt = e.tt]
             /\ timetable' = e.tt
    /\ pc' = "evaluated"
    /\ UNCHANGED <<entities, solver, counters, max_backtracks, attempt,
                   stack, verdict, history, last_call, calls, ui>>

-----------------------------------------------------------------------------
(* Inputs: the five entity lists handed to the constructor *)

Course(id, type)          == [id |-> id, type |-> type]
Instructor(id, days, qcs) == [id |-> id, unavailable_days |-> days, qualified_courses |-> qcs]
Room(id, type)            == [id |-> id, type |-> type]
Section(id, cs)           == [id |-> id, courses |-> cs]
TimeSlot(id, day, start_time) == [id |-> id, day |-> day, start_time |-> start_time]

Catalogue ==
    <<Course("ENG101", "Lecture"), Course("PHY113", "Lecture"),
      Course("CSC111", "Computer Lab")>>

CourseIds == {Catalogue[i].id : i \in DOMAIN Catalogue}

\* course lists of a section: no course twice
CourseLists ==
    UNION {{cl \in [1..n -> CourseIds] : \A i, j \in 1..n : i # j => cl[i] # cl[j]}
           : n \in 0..MaxCourses}

SectionOptions ==
    {<<>>}
    \cup {<<Section("S1", c1)>> : c1 \in CourseLists}
    \cup {<<Section("S1", c1), Section("S2", c2)>> : c1 \in CourseLists \ {<<>>},
                                                     c2 \in {<<"ENG101">>, <<"PHY113">>, <<"ENG101", "PHY113">>}}

SlotIds == [i \in 1..(DAY_CAP + 2) |-> "T" \o ToString(i)]

\* StartTime as the data source delivers it: on the hour, from 9:00 to 18:00
SlotTimes == [i \in 1..(DAY_CAP + 2) |-> ToString(9 + ((i - 1) % 10)) \o ":00"]

\* the first slot is on Monday, the others on Monday or Tuesday
SlotOptions ==
    UNION {{[i \in 1..n |-> TimeSlot(SlotIds[i], d[i], SlotTimes[i])] :
              d \in {f \in [1..n -> {"Monday", "Tuesday"}] : f[1] = "Monday"}}
           : n \in 1..MaxSlots}

RoomOptions ==
    {<<Room("R1", "Classroom"), Room("L1", "Lab")>>,
     <<Room("L1", "Lab"), Room("L2", "Lab")>>,
     <<Room("R1", "Classroom"), Room("R2", "Classroom"), Room("L1", "Lab")>>}

AllCourses == <<"ENG101", "PHY113", "CSC111">>

InstructorOptions ==
    {<<Instructor("PROF1", <<>>, AllCourses)>>,
     <<Instructor("PROF1", <<"Monday">>, AllCourses),
       Instructor("PROF27", <<>>, <<"ENG101">>)>>,
     <<Instructor("PROF1", <<>>, AllCourses),
       Instructor("PROF2", <<"Tuesday">>, AllCourses)>>,
     <<Instructor("PROF1", <<>>, <<"PHY113", "CSC111">>),
       Instructor("PROF27", <<"Monday">>, <<>>)>>}

SmallInstances ==
    {[courses |-> Catalogue, instructors |-> ins, rooms |-> rs, sections |-> secs,
      time_slots |-> tss] :
        ins \in InstructorOptions, rs \in RoomOptions, secs \in SectionOptions,
        tss \in SlotOptions}

\* One section with DAY_CAP + 1 courses, one room, one instructor, DAY_CAP + 1
\* slots on Monday and one on Tuesday: the day cap decides the last variable.
BigCourseIds == [i \in 1..(DAY_CAP + 1) |-> "C" \o ToString(i)]

DayCapInstance ==
    [courses     |-> [i \in 1..(DAY_CAP + 1) |-> Course(BigCourseIds[i], "Lecture")],
     instructors |-> <<Instructor("PROF1", <<>>, BigCourseIds)>>,
     rooms       |-> <<Room("R1", "Classroom")>>,
     sections    |-> <<Section("S1", BigCourseIds)>>,
     time_slots  |-> [i \in 1..(DAY_CAP + 2) |->
                        TimeSlot(SlotIds[i], IF i <= DAY_CAP + 1 THEN "Monday" ELSE "Tuesday",
                                 SlotTimes[i])]]

\* No classroom and ROOM_PROMOTION_N + 1 labs: the last lab stays a lab.
LabIds == [i \in 1..(ROOM_PROMOTION_N + 1) |-> "L" \o ToString(i)]

PromotionInstance ==
    [courses     |-> Catalogue,
     instructors |-> <<Instructor("PROF1", <<>>, AllCourses)>>,
     rooms       |-> [i \in 1..(ROOM_PROMOTION_N + 1) |-> Room(LabIds[i], "Lab")],
     sections    |-> <<Section("S1", <<"ENG101", "PHY113">>)>>,
     time_slots  |-> <<TimeSlot("T1", "Monday", "9:00"), TimeSlot("T2", "Monday", "10:00")>>]

\* No classroom, ROOM_PROMOTION_N + 5 labs and, among them, one room that is
\* neither a lab nor a classroom.
ManyLabIds == [i \in 1..(ROOM_PROMOTION_N + 5) |-> "L" \o ToString(i)]

ManyLabsInstance ==
    [courses     |-> Catalogue,
     instructors |-> <<Instructor("PROF1", <<>>, AllCourses)>>,
     rooms       |-> [i \in 1..(ROOM_PROMOTION_N + 6) |->
                        IF i < 11 THEN Room(ManyLabIds[i], "Lab")
                        ELSE IF i = 11 THEN Room("A1", "Auditorium")
                        ELSE Room(ManyLabIds[i - 1], "Lab")],
     sections    |-> <<Section("S1", <<"ENG101">>)>>,
     time_slots  |-> <<TimeSlot("T1", "Monday", "9:00")>>]

\* One section with the orphan course LRA401 and instructors whose ids carry
\* the configured strings: four of them, two of them (one already qualified),
\* one that carries the string after other letters, and none.
OrphanCatalogue == Append(Catalogue, Course("LRA401", "Lecture"))

OrphanInstructorOptions ==
    {<<Instructor("PROF27", <<>>, <<>>), Instructor("PROF28", <<>>, <<"ENG101">>),
       Instructor("PROF1", <<>>, AllCourses), Instructor("PROF29", <<>>, <<>>),
       Instructor("PROF30", <<>>, <<>>)>>,
     <<Instructor("PROF1", <<>>, AllCourses),
       Instructor("PROF35", <<>>, <<"LRA101", "ENG101">>),
       Instructor("PROF31", <<"Monday">>, <<>>)>>,
     <<Instructor("ADJPROF27", <<>>, <<>>), Instructor("PROF28", <<>>, <<>>),
       Instructor("PROF29", <<>>, <<>>), Instructor("PROF30", <<>>, <<>>)>>,
     <<Instructor("PROF1", <<>>, AllCourses), Instructor("PROF2", <<>>, <<>>)>>}

OrphanInstances ==
    {[courses |-> OrphanCatalogue, instructors |-> ins,
      rooms |-> <<Room("R1", "Classroom")>>,
      sections |-> <<Section("S1", <<"LRA401">>)>>,
      time_slots |-> <<TimeSlot("T1", "Monday", "9:00"), TimeSlot("T2", "Tuesday", "10:00")>>] :
        ins \in OrphanInstructorOptions}

Instances ==
    SmallInstances
        \cup {DayCapInstance, PromotionInstance, ManyLabsInstance}
        \cup OrphanInstances

Init ==
    /\ \E inst \in Instances :
         /\ courses = inst.courses
         /\ instructors = inst.instructors
         /\ rooms = inst.rooms
         /\ sections = inst.sections
         /\ time_slots = inst.time_slots
    /\ pc = "new"
    /\ variables = <<>>
    /\ domains = <<>>
    /\ backtracks = 0
    /\ assignments_tried = 0
    /\ max_backtracks = MAX_BACKTRACKS
    /\ attempt = 0
    /\ timetable = Timetable
    /\ stack = <<>>
    /\ result = Pending
    /\ verdict = "none"
    /\ run = 0
    /\ prev_result = Pending
    /\ last_call = NoCall
    /\ metrics = PerformanceTracker
    /\ calls = NoCalls
    /\ ui = TimetableUI

Next ==
    \/ FinalFixSolver
    \/ solve
    \/ backtracking_search
    \/ solve_returns_none
    \/ backtrack_enter
    \/ backtrack_try_value
    \/ backtrack_exhausted
    \/ main_evaluate

Spec == Init /\ [][Next]_vars

-----------------------------------------------------------------------------
(* A host that also calls backtracking_search itself, with a budget *)

Budgets == 0..MaxBudget

\* solver.backtracking_search(max_backtracks = mb) on a constructed solver
backtracking_search_direct(mb) ==
    /\ pc \in {"constructed", "done"}
    /\ backtracks' = 0
    /\ assignments_tried' = 0
    /\ max_backtracks' = mb
    /\ timetable' = Timetable
    /\ stack' = <<Frame(variables, Timetable)>>
    /\ calls' = NoCalls
    /\ pc' = "direct"
    /\ result' = Pending
    /\ UNCHANGED <<entities, solver, attempt, verdict, history, last_call, metrics, ui>>

NextHost ==
    \/ Next
    \/ \E mb \in Budgets : backtracking_search_direct(mb)

SpecHost == Init /\ [][NextHost]_vars

\* a statement of solve() or of the backtracking_search it or the host has
\* called; the interpreter runs the next one whenever there is one
Running ==
    \/ solve
    \/ backtracking_search
    \/ solve_returns_none
    \/ backtrack_enter
    \/ backtrack_try_value
    \/ backtrack_exhausted

\* inputs with one classroom: two or three variables over one or two slots,
\* so that a search succeeds, at once or after a backtrack, exhausts its
\* values or runs out of budget
RunningInstances ==
    {[courses     |-> Catalogue,
      instructors |-> <<Instructor("PROF1", <<>>, AllCourses),
                        Instructor("PROF2", <<>>, AllCourses)>>,
      rooms       |-> <<Room("R1", "Classroom"), Room("L1", "Lab")>>,
      sections    |-> secs,
      time_slots  |-> tss] :
        secs \in {<<Section("S1", <<"ENG101", "PHY113">>)>>,
                  <<Section("S1", <<"ENG101">>), Section("S2", <<"ENG101">>)>>,
                  <<Section("S1", <<"ENG101", "PHY113">>), Section("S2", <<"ENG101">>)>>},
        tss \in {<<TimeSlot("T1", "Monday", "9:00")>>,
                 <<TimeSlot("T1", "Monday", "9:00"), TimeSlot("T2", "Monday", "10:00")>>}}
    \cup
    \* the first value of the first variable leaves none for the second
    {[courses     |-> Catalogue,
      instructors |-> <<Instructor("PROF1", <<"Tuesday">>, <<"PHY113">>),
                        Instructor("PROF2", <<"Tuesday">>, <<"PHY113">>),
                        Instructor("PROF3", <<>>, <<"ENG101">>)>>,
      rooms       |-> <<Room("R1", "Classroom"), Room("L1", "Lab")>>,
      sections    |-> <<Section("S1", <<"ENG101", "PHY113">>)>>,
      time_slots  |-> <<TimeSlot("T1", "Monday", "9:00"),
                        TimeSlot("T2", "Tuesday", "10:00")>>]}

InitRunning ==
    /\ \E inst \in RunningInstances :
         /\ courses = inst.courses
         /\ instructors = inst.instructors
         /\ rooms = inst.rooms
         /\ sections = inst.sections
         /\ time_slots = inst.time_slots
    /\ pc = "new"
    /\ variables = <<>>
    /\ domains = <<>>
    /\ backtracks = 0
    /\ assignments_tried = 0
    /\ max_backtracks = MAX_BACKTRACKS
    /\ attempt = 0
    /\ timetable = Timetable
    /\ stack = <<>>
    /\ result = Pending
    /\ verdict = "none"
    /\ run = 0
    /\ prev_result = Pending
    /\ last_call = NoCall
    /\ metrics = PerformanceTracker
    /\ calls = NoCalls
    /\ ui = TimetableUI

SpecHostRunning == InitRunning /\ [][NextHost]_vars /\ WF_vars(Running)

-----------------------------------------------------------------------------
(* Direct calls on a Timetable: any sequence of add_assignment and        *)
(* remove_assignment with any Assignment                                  *)

AssignmentUniverse ==
    [section_id : {"S1", "S2"}, course_id : {"ENG101"}, time_slot : {"T1", "T2"},
     room : {"R1"}, instructor : {"PROF1", "PROF2"}]

InitTimetable ==
    /\ pc = "timetable"
    /\ courses = <<>>
    /\ instructors = <<>>
    /\ rooms = <<>>
    /\ sections = <<>>
    /\ time_slots = <<>>
    /\ variables = <<>>
    /\ domains = <<>>
    /\ backtracks = 0
    /\ assignments_tried = 0
    /\ max_backtracks = MAX_BACKTRACKS
    /\ attempt = 0
    /\ timetable = Timetable
    /\ stack = <<>>
    /\ result = Pending
    /\ verdict = "none"
    /\ run = 0
    /\ prev_result = Pending
    /\ last_call = NoCall
    /\ metrics = PerformanceTracker
    /\ calls = NoCalls
    /\ ui = TimetableUI

rest == <<pc, entities, solver, counters, max_backtracks, attempt, stack, result,
          verdict, history, metrics, calls, ui>>

\* timetable.add_assignment(a)
CallAdd(a) ==
    /\ pc = "timetable"
    /\ Len(timetable.assignments) < MaxAssignments
    /\ timetable' = add_assignment(timetable, a)
    /\ last_call' = [op |-> "add", arg |-> a, pre |-> timetable, raised |-> ""]
    /\ UNCHANGED rest

\* timetable.remove_assignment(a); a call that follows add_assignment(a)
\* directly completes a round trip from the state before the add.
CallRemove(a) ==
    /\ pc = "timetable"
    /\ LET r == remove_assignment(timetable, a)
       IN  /\ timetable' = r.tt
           /\ last_call' =
                IF last_call.op = "add" /\ last_call.arg = a
                  THEN [op |-> "add_remove", arg |-> a, pre |-> last_call.pre,
                        raised |-> r.raised]
                  ELSE [op |-> "remove", arg |-> a, pre |-> timetable,
                        raised |-> r.raised]
    /\ UNCHANGED rest

NextTimetable ==
    \E a \in AssignmentUniverse : CallAdd(a) \/ CallRemove(a)

SpecTimetable == InitTimetable /\ [][NextTimetable]_vars

-----------------------------------------------------------------------------
(* The evaluator, on the Timetable solve() returned and on any Timetable *)

\* the slots of the Timetables handed to the evaluator: three on Monday, one
\* on Tuesday evening
EvaluatedSlots ==
    <<TimeSlot("T1", "Monday", "9:00"), TimeSlot("T2", "Monday", "10:00"),
      TimeSlot("T3", "Monday", "11:00"), TimeSlot("T4", "Tuesday", "19:00")>>

\* section S1 with either instructor, section S2 with PROF2
EvaluatedUniverse ==
    {a \in [section_id : {"S1", "S2"}, course_id : {"ENG101"},
            time_slot : {EvaluatedSlots[i].id : i \in DOMAIN EvaluatedSlots},
            room : {"R1", "R2"}, instructor : {"PROF1", "PROF2"}] :
        a.section_id = "S2" => a.instructor = "PROF2"}

EvaluatedLists == UNION {[1..n -> EvaluatedUniverse] : n \in 0..MaxListed}

\* the Timetable after add_assignment of the elements of a list, in order
RECURSIVE TimetableOf(_)
TimetableOf(lst) ==
    IF Len(lst) = 0 THEN Timetable
    ELSE add_assignment(TimetableOf(SubSeq(lst, 1, Len(lst) - 1)), lst[Len(lst)])

InitTracker ==
    /\ pc = "tracker"
    /\ \E lst \in EvaluatedLists : timetable = TimetableOf(lst)
    /\ courses = <<>>
    /\ instructors = <<>>
    /\ rooms = <<>>
    /\ sections = <<>>
    /\ time_slots = EvaluatedSlots
    /\ variables = <<>>
    /\ domains = <<>>
    /\ backtracks = 0
    /\ assignments_tried = 0
    /\ max_backtracks = MAX_BACKTRACKS
    /\ attempt = 0
    /\ stack = <<>>
    /\ result = Pending
    /\ verdict = "none"
    /\ run = 0
    /\ prev_result = Pending
    /\ last_call = NoCall
    /\ metrics = PerformanceTracker
    /\ calls = NoCalls
    /\ ui = TimetableUI

\* tracker.evaluate_solution(timetable, solver) on a Timetable built by
\* add_assignment calls
tracker_evaluate ==
    /\ pc = "tracker"
    /\ LET e == evaluate_solution(metrics, timetable, variables)
       IN  /\ metrics' = e.metrics
           /\ timetable' = e.tt
    /\ pc' = "reported"
    /\ UNCHANGED <<entities, solver, counters, max_backtracks, attempt,
                   stack, result, verdict, history, last_call, calls, ui>>

NextEvaluation ==
    \/ Next
    \/ tracker_evaluate

SpecEvaluation == (Init \/ InitTracker) /\ [][NextEvaluation]_vars

-----------------------------------------------------------------------------
(* The interactive mode: TimetableUI.run_interactive_mode *)

\* the data a generation loads: no section, one section, or two sections that
\* need the only classroom in the only slot
UIInstances ==
    {[courses     |-> Catalogue,
      instructors |-> <<Instructor("PROF1", <<>>, AllCourses),
                        Instructor("PROF2", <<>>, AllCourses)>>,
      rooms       |-> <<Room("R1", "Classroom"), Room("L1", "Lab")>>,
      sections    |-> secs,
      time_slots  |-> <<TimeSlot("T1", "Monday", "9:00")>>] :
        secs \in {<<>>,
                  <<Section("S1", <<"ENG101">>)>>,
                  <<Section("S1", <<"ENG101">>), Section("S2", <<"ENG101">>)>>}}

InitUI ==
    /\ pc = "menu"
    /\ courses = <<>>
    /\ instructors = <<>>
    /\ rooms = <<>>
    /\ sections = <<>>
    /\ time_slots = <<>>
    /\ variables = <<>>
    /\ domains = <<>>
    /\ backtracks = 0
    /\ assignments_tried = 0
    /\ max_backtracks = MAX_BACKTRACKS
    /\ attempt = 0
    /\ timetable = Timetable
    /\ stack = <<>>
    /\ result = Pending
    /\ verdict = "none"
    /\ run = 0
    /\ prev_result = Pending
    /\ last_call = NoCall
    /\ metrics = PerformanceTracker
    /\ calls = NoCalls
    /\ ui = TimetableUI

\* Choices 1 and 2, up to the construction of the solver: the data is loaded
\* and handed to _solve_timetable, which constructs the solver on it. A
\* ValueError of the constructor is caught by the choice's handler, which
\* prints an error and returns to the menu.
_generate(inst) ==
    /\ pc = "menu"
    /\ run < MaxRuns
    /\ LET rs  == _fix_room_types(inst.rooms)
           ins == _fix_instructor_qualifications(inst.instructors)
           vs  == _create_variables(inst.sections)
       IN  /\ courses' = inst.courses
           /\ sections' = inst.sections
           /\ time_slots' = inst.time_slots
           /\ rooms' = rs
           /\ instructors' = ins
           /\ variables' = vs
           /\ domains' = _precompute_domains_final(inst.courses, ins, rs, inst.time_slots, vs)
           /\ pc' = IF Len(vs) = 0 THEN "menu" ELSE "constructed"
           /\ ui' = [ui EXCEPT !.choice = "1",
                               !.output = IF Len(vs) = 0 THEN "error" ELSE "generating"]
    /\ backtracks' = 0
    /\ assignments_tried' = 0
    /\ run' = run + 1
    /\ prev_result' = result
    /\ result' = Pending
    /\ UNCHANGED <<max_backtracks, attempt, timetable, stack, verdict, last_call,
                   metrics, calls>>

\* _solve_timetable once solve() has returned: the result becomes the
\* current timetable, the wall time is recorded, and a timetable is evaluated.
_solve_timetable ==
    /\ pc = "done"
    /\ \E t \in Elapsed :
         LET timed == [metrics EXCEPT !.generation_time = t]
             e     == evaluate_solution(timed, result.tt, variables)
         IN  IF result.kind = "Timetable"
               THEN /\ metrics' = e.metrics
                    /\ result' = [result EXCEPT !.tt = e.tt]
                    /\ timetable' = e.tt
                    /\ ui' = [ui EXCEPT !.current_timetable = [result EXCEPT !.tt = e.tt],
                                        !.output = "generated"]
               ELSE /\ metrics' = timed
                    /\ ui' = [ui EXCEPT !.current_timetable = NoSolution,
                                        !.output = "failed"]
                    /\ UNCHANGED <<result, timetable>>
    /\ pc' = "menu"
    /\ UNCHANGED <<entities, solver, counters, max_backtracks, attempt, stack,
                   verdict, history, last_call, calls>>

\* what a menu choice leaves alone
solving == <<pc, entities, solver, counters, max_backtracks, attempt, timetable,
             stack, result, verdict, history, last_call, metrics, calls>>

\* Choice 3
_show_timetable ==
    /\ pc = "menu"
    /\ ui' = [ui EXCEPT !.choice = "3",
                        !.output = IF ui.current_timetable.kind = "Timetable"
                                     THEN "timetable" ELSE "no timetable generated yet"]
    /\ UNCHANGED solving

\* Choice 4
_show_performance ==
    /\ pc = "menu"
    /\ ui' = [ui EXCEPT !.choice = "4",
                        !.output = IF metrics.generation_time > 0
                                     THEN "report" ELSE "no timetable generated yet"]
    /\ UNCHANGED solving

\* Choice 5
_export_to_csv ==
    /\ pc = "menu"
    /\ ui' = [ui EXCEPT !.choice = "5",
                        !.output = IF ui.current_timetable.kind = "Timetable"
                                     THEN "csv" ELSE "no timetable to export"]
    /\ UNCHANGED solving

\* Choice 6
_export_to_database ==
    /\ pc = "menu"
    /\ ui' = [ui EXCEPT !.choice = "6",
                        !.output = IF ui.current_timetable.kind = "Timetable"
                                     THEN "database" ELSE "no timetable to export"]
    /\ UNCHANGED solving

\* one turn of the menu loop, or a step of the solve() a generation runs
run_interactive_mode ==
    \/ \E inst \in UIInstances : _generate(inst)
    \/ solve
    \/ backtracking_search
    \/ solve_returns_none
    \/ backtrack_enter
    \/ backtrack_try_value
    \/ backtrack_exhausted
    \/ _solve_timetable
    \/ _show_timetable
    \/ _show_performance
    \/ _export_to_csv
    \/ _export_to_database

SpecUI == InitUI /\ [][run_interactive_mode]_vars

-----------------------------------------------------------------------------
(* Properties of the Timetable that solve() returns *)

Returned == pc = "done" /\ result.kind = "Timetable"

ReturnedList == result.tt.assignments

\* the (section_id, course_id) pairs of the sections' course lists
VariablePairs ==
    UNION {{<<sections[i].id, sections[i].courses[j]>> : j \in DOMAIN sections[i].courses}
           : i \in DOMAIN sections}

\* C1: a returned Timetable has exactly one Assignment per variable
\* (section_id, course_id) of the sections' course lists: as many list entries
\* as variables, no variable twice, and assignment_dict maps every variable to
\* its Assignment of the list.
OneAssignmentPerVariable ==
    Returned =>
        /\ Len(ReturnedList) = Cardinality(VariablePairs)
        /\ \A i, j \in DOMAIN ReturnedList :
               i # j => Key(ReturnedList[i]) # Key(ReturnedList[j])
        /\ DOMAIN result.tt.assignment_dict = VariablePairs
        /\ \A v \in VariablePairs :
               /\ Key(result.tt.assignment_dict[v]) = v
               /\ InList(result.tt.assignment_dict[v], ReturnedList)

\* a Timetable is returned for two sections with three or more variables
OneAssignmentPerVariableWitness ==
    /\ Returned
    /\ Len(sections) = 2
    /\ Len(ReturnedList) >= 3

\* C2: in a returned Timetable no two Assignments share an instructor and a
\* time slot.
NoInstructorClash ==
    Returned =>
        \A i, j \in DOMAIN ReturnedList :
            i # j => ~(/\ ReturnedList[i].instructor = ReturnedList[j].instructor
                       /\ ReturnedList[i].time_slot = ReturnedList[j].time_slot)

\* a returned Timetable in which one instructor holds two Assignments, and two
\* Assignments share a time slot
NoInstructorClashWitness ==
    /\ Returned
    /\ \E i, j \in DOMAIN ReturnedList :
           i # j /\ ReturnedList[i].instructor = ReturnedList[j].instructor
    /\ \E i, j \in DOMAIN ReturnedList :
           i # j /\ ReturnedList[i].time_slot = ReturnedList[j].time_slot

\* C3: in a returned Timetable no two Assignments share a room and a time slot.
NoRoomClash ==
    Returned =>
        \A i, j \in DOMAIN ReturnedList :
            i # j => ~(/\ ReturnedList[i].room = ReturnedList[j].room
                       /\ ReturnedList[i].time_slot = ReturnedList[j].time_slot)

\* a returned Timetable in which one room holds two Assignments, and two
\* Assignments share a time slot
NoRoomClashWitness ==
    /\ Returned
    /\ \E i, j \in DOMAIN ReturnedList :
           i # j /\ ReturnedList[i].room = ReturnedList[j].room
    /\ \E i, j \in DOMAIN ReturnedList :
           i # j /\ ReturnedList[i].time_slot = ReturnedList[j].time_slot

\* C4: in a returned Timetable no two Assignments of one section share a time
\* slot.
NoSectionClash ==
    Returned =>
        \A i, j \in DOMAIN ReturnedList :
            i # j => ~(/\ ReturnedList[i].section_id = ReturnedList[j].section_id
                       /\ ReturnedList[i].time_slot = ReturnedList[j].time_slot)

\* a returned Timetable in which one section holds two Assignments, and two
\* Assignments of different sections share a time slot
NoSectionClashWitness ==
    /\ Returned
    /\ \E i, j \in DOMAIN ReturnedList :
           i # j /\ ReturnedList[i].section_id = ReturnedList[j].section_id
    /\ \E i, j \in DOMAIN ReturnedList :
           /\ ReturnedList[i].section_id # ReturnedList[j].section_id
           /\ ReturnedList[i].time_slot = ReturnedList[j].time_slot

\* C5: every Assignment of a returned Timetable has an instructor who lists
\* its course as qualified and does not list the day of its slot as
\* unavailable.
QualifiedAndAvailable ==
    Returned =>
        \A i \in DOMAIN ReturnedList :
            LET a == ReturnedList[i]
            IN  /\ InList(a.course_id, InstructorOf(a.instructor).qualified_courses)
                /\ ~InList(SlotOf(a.time_slot).day,
                           InstructorOf(a.instructor).unavailable_days)

\* a returned Assignment whose course another instructor could not take: one
\* is qualified but away on the day of the slot, or one is not qualified
QualifiedAndAvailableWitness ==
    /\ Returned
    /\ \E i \in DOMAIN ReturnedList, k \in DOMAIN instructors :
           /\ InList(ReturnedList[i].course_id, instructors[k].qualified_courses)
           /\ InList(SlotOf(ReturnedList[i].time_slot).day, instructors[k].unavailable_days)
    /\ \E i \in DOMAIN ReturnedList, k \in DOMAIN instructors :
           ~InList(ReturnedList[i].course_id, instructors[k].qualified_courses)

\* C6: room-type law. An Assignment of a returned Timetable is in a room of
\* type "Lab" exactly when its course id is in the lab-course set or its
\* course's type contains "Lab"; every other Assignment is in a "Classroom".
RoomTypeLaw ==
    Returned =>
        \A i \in DOMAIN ReturnedList :
            LET a    == ReturnedList[i]
                type == CourseOf(courses, a.course_id).type
                lab  == a.course_id \in LAB_COURSES \/ Contains("Lab", type)
            IN  /\ (RoomOf(a.room).type = "Lab") <=> lab
                /\ ~lab => RoomOf(a.room).type = "Classroom"

\* a returned Timetable with a course in the lab-course set, a course whose
\* type contains "Lab" and a classroom course
RoomTypeLawWitness ==
    /\ Returned
    /\ \E i \in DOMAIN ReturnedList : ReturnedList[i].course_id \in LAB_COURSES
    /\ \E i \in DOMAIN ReturnedList :
           /\ ReturnedList[i].course_id \notin LAB_COURSES
           /\ Contains("Lab", CourseOf(courses, ReturnedList[i].course_id).type)
    /\ \E i \in DOMAIN ReturnedList : RoomOf(ReturnedList[i].room).type = "Classroom"

\* the days of the time slots
Days == {time_slots[i].day : i \in DOMAIN time_slots}

\* number of Assignments of a list on a day
OnDay(lst, day) ==
    Cardinality({i \in DOMAIN lst : SlotOf(lst[i].time_slot).day = day})

\* C7: day-cap law. In every state of the timetable during the search, and in
\* a returned Timetable, no day holds more than DAY_CAP (55) Assignments.
DayCapLaw ==
    /\ \A d \in Days : OnDay(timetable.assignments, d) <= 55
    /\ Returned => \A d \in Days : OnDay(ReturnedList, d) <= 55

\* a candidate has been rejected by the cap alone, with 55 Assignments on its day
DayCapLawWitness ==
    /\ pc = "search"
    /\ verdict = "day_cap"
    /\ \E d \in Days : OnDay(timetable.assignments, d) = 55

\* what solve() hands back: no solution, or the Assignments in list order
Outcome(r) == [kind |-> r.kind, assignments |-> r.tt.assignments]

\* C8: determinism. A second construction and solve() on the same courses,
\* instructors, rooms, sections and time slots ends as the first did: both
\* return no solution, or both return the same Assignments in the same order.
Determinism ==
    (pc = "done" /\ run >= 2) => Outcome(result) = Outcome(prev_result)

\* the second run has returned a Timetable that took backtracks to find
DeterminismWitness ==
    /\ Returned
    /\ run = 2
    /\ backtracks > 0
    /\ Len(ReturnedList) >= 2

-----------------------------------------------------------------------------
(* Properties of the Timetable under direct calls *)

InstructorIds == {a.instructor : a \in AssignmentUniverse}
RoomIds       == {a.room : a \in AssignmentUniverse}
SectionIds    == {a.section_id : a \in AssignmentUniverse}

\* the time slots of the listed Assignments that carry an id
SlotsOfInstructor(lst, id) == {lst[i].time_slot : i \in {j \in DOMAIN lst : lst[j].instructor = id}}
SlotsOfRoom(lst, id)       == {lst[i].time_slot : i \in {j \in DOMAIN lst : lst[j].room = id}}
SlotsOfSection(lst, id)    == {lst[i].time_slot : i \in {j \in DOMAIN lst : lst[j].section_id = id}}

\* C9: index/list consistency. After any sequence of add_assignment and
\* remove_assignment calls, the schedule set of every instructor id, room id
\* and section id equals the set of time slot ids of the listed Assignments
\* that carry the id.
IndexListConsistency ==
    pc = "timetable" =>
        /\ \A id \in InstructorIds :
               DDGet(timetable.instructor_schedule, id)
                   = SlotsOfInstructor(timetable.assignments, id)
        /\ \A id \in RoomIds :
               DDGet(timetable.room_schedule, id) = SlotsOfRoom(timetable.assignments, id)
        /\ \A id \in SectionIds :
               DDGet(timetable.section_schedule, id)
                   = SlotsOfSection(timetable.assignments, id)

\* C10: round-trip law. add_assignment(a) followed by remove_assignment(a)
\* leaves the assignment list, the (section_id, course_id) map and the content
\* of the three schedule indices as they were before the add.
RoundTripLaw ==
    last_call.op = "add_remove" =>
        /\ timetable.assignments = last_call.pre.assignments
        /\ timetable.assignment_dict = last_call.pre.assignment_dict
        /\ \A id \in InstructorIds :
               DDGet(timetable.instructor_schedule, id)
                   = DDGet(last_call.pre.instructor_schedule, id)
        /\ \A id \in RoomIds :
               DDGet(timetable.room_schedule, id) = DDGet(last_call.pre.room_schedule, id)
        /\ \A id \in SectionIds :
               DDGet(timetable.section_schedule, id)
                   = DDGet(last_call.pre.section_schedule, id)

-----------------------------------------------------------------------------
(* Degenerate inputs *)

\* the constructor has run on the current records
Constructed == run >= 1 /\ pc # "new"

\* C11: when the variable list is empty (no section has any course), building
\* the solver and calling solve raises no error, tries no value, and solve
\* returns a Timetable with zero Assignments.
EmptyVariableList ==
    (Constructed /\ VariablePairs = {}) =>
        /\ pc # "raised"
        /\ assignments_tried = 0
        /\ pc = "done" => (Returned /\ ReturnedList = <<>>)

\* some variable has no candidate after domain construction
HasEmptyDomain ==
    /\ Constructed
    /\ \E v \in DOMAIN domains : Len(domains[v]) = 0

\* C12: whenever at least one variable has an empty domain after domain
\* construction, no Assignment is ever added to a timetable, the backtracks
\* counter stays 0, and solve returns no solution.
EmptyDomainFailsAtRoot ==
    HasEmptyDomain =>
        /\ timetable.assignments = <<>>
        /\ backtracks = 0
        /\ pc # "raised"
        /\ pc = "done" => result = NoSolution

\* solve has returned None after its attempts on an instance in which the
\* first variable has candidates and a later one has none
EmptyDomainFailsAtRootWitness ==
    /\ HasEmptyDomain
    /\ pc = "done"
    /\ result = NoSolution
    /\ attempt = MAX_ATTEMPTS
    /\ Len(variables) >= 2
    /\ Len(domains[variables[1]]) > 0

\* C13: InputInfeasible is fatal. When at least one variable has an empty
\* domain after normalisation, the search is not attempted: solve runs no
\* backtracking_search invocation.
NoSearchOnInfeasibleInput ==
    HasEmptyDomain => pc # "search"

-----------------------------------------------------------------------------
(* The search *)

\* the Assignment a candidate of a variable stands for
Candidate(var, value) ==
    [section_id |-> var[1], course_id |-> var[2],
     time_slot  |-> value[1], room |-> value[2], instructor |-> value[3]]

\* two Assignments pass the instructor, room and section checks with each other
Compatible(a, b) ==
    \/ a.time_slot # b.time_slot
    \/ /\ a.instructor # b.instructor
       /\ a.room # b.room
       /\ a.section_id # b.section_id

\* chosen, one candidate for each of the first k - 1 variables, extends to a
\* complete assignment that passes the pairwise checks and the day cap
RECURSIVE Extends(_, _)
Extends(chosen, k) ==
    IF k > Len(variables)
      THEN \A d \in Days : OnDay(chosen, d) <= DAY_CAP
    ELSE \E i \in DOMAIN domains[variables[k]] :
            LET a == Candidate(variables[k], domains[variables[k]][i])
            IN  /\ \A j \in DOMAIN chosen : Compatible(chosen[j], a)
                /\ Extends(Append(chosen, a), k + 1)

ExistsComplete == Extends(<<>>, 1)

\* the returned list holds one Assignment for every variable
FullyPopulated ==
    /\ Len(ReturnedList) = Len(variables)
    /\ \A k \in DOMAIN variables :
          \E i \in DOMAIN ReturnedList : Key(ReturnedList[i]) = variables[k]

\* C14: completeness of the search. solve (or a backtracking_search the host
\* calls itself) returns no solution only if the backtrack budget was exceeded
\* or no complete assignment exists that picks one candidate from each
\* variable's domain and satisfies the instructor, room, section and day-cap
\* checks; if such an assignment exists and the budget is not exceeded, the
\* call returns a fully populated Timetable.
Completeness ==
    pc = "done" =>
        /\ result = NoSolution => (backtracks > max_backtracks \/ ~ExistsComplete)
        /\ (ExistsComplete /\ backtracks <= max_backtracks)
               => (Returned /\ FullyPopulated)

\* no solution was returned within the budget, after backtracks, although
\* every variable has candidates
CompletenessWitness ==
    /\ pc = "done"
    /\ result = NoSolution
    /\ backtracks > 0
    /\ backtracks <= max_backtracks
    /\ \A v \in DOMAIN domains : Len(domains[v]) > 0
    /\ ~ExistsComplete

\* C15: MAX_BACKTRACKS is a hard ceiling. In every state of a
\* backtracking_search invocation the backtracks counter is at most
\* max_backtracks + 1, and once the counter exceeds max_backtracks the
\* invocation returns no solution.
BacktrackCeiling ==
    /\ Searching => backtracks <= max_backtracks + 1
    /\ (pc = "done" /\ backtracks > max_backtracks) => result = NoSolution

\* C16: restart protocol of solve. Attempts run one after another; each
\* starts from an empty Timetable, the full variable list and
\* backtracks = assignments_tried = 0. solve returns the Timetable of the
\* first attempt that succeeds and runs no further attempt. It returns no
\* solution, as a value and not as an exception, only after exactly
\* MAX_ATTEMPTS (3) attempts have failed.
RestartProtocol ==
    [][/\ (pc = "constructed" /\ pc' = "solve") => attempt' = 0
       /\ pc = "solve" => pc' \in {"search", "done"}
       /\ (pc # "search" /\ pc' = "search") =>
              /\ pc = "solve"
              /\ attempt' = attempt
              /\ attempt < MAX_ATTEMPTS
              /\ timetable' = Timetable
              /\ stack' = <<Frame(variables, Timetable)>>
              /\ backtracks' = 0
              /\ assignments_tried' = 0
       /\ pc = "search" => pc' \in {"search", "solve", "done"}
       /\ (pc = "search" /\ pc' = "solve") => attempt' = attempt + 1
       /\ (pc = "search" /\ pc' = "done") =>
              /\ result' = Solution(timetable)
              /\ Len(result'.tt.assignments) = Len(variables)
       /\ (pc = "solve" /\ pc' = "done") =>
              /\ result' = NoSolution
              /\ attempt = MAX_ATTEMPTS
       /\ pc = "done" => pc' \notin {"solve", "search"}]_vars

\* solve has returned None after three attempts, the last with backtracks
RestartProtocolWitness ==
    /\ pc = "done"
    /\ result = NoSolution
    /\ attempt = MAX_ATTEMPTS
    /\ backtracks > 0

\* the candidates of a variable, as Assignments
CandidatesOf(var) == {Candidate(var, domains[var][i]) : i \in DOMAIN domains[var]}

\* Two or more variables, every candidate of every variable on one and the
\* same time slot, and any two variables colliding on it: whichever candidates
\* are taken for them, the two share the instructor, the room or the section.
PairwiseCollision ==
    /\ Len(variables) >= 2
    /\ \E t \in {time_slots[i].id : i \in DOMAIN time_slots} :
          \A v \in DOMAIN domains : \A a \in CandidatesOf(v) : a.time_slot = t
    /\ \A v, w \in DOMAIN domains :
          v # w => \A a \in CandidatesOf(v), b \in CandidatesOf(w) : ~Compatible(a, b)

\* the product of the domain sizes of the variables from position k on
RECURSIVE DomainProductFrom(_)
DomainProductFrom(k) ==
    IF k > Len(variables) THEN 1
    ELSE Len(domains[variables[k]]) * DomainProductFrom(k + 1)

\* C17: on an instance in which all candidates of each variable use a single
\* time slot and any two variables collide on that slot, the backtracks
\* counter stays at most the product of the domain sizes in each attempt, and
\* solve returns no solution.
CollisionBound ==
    PairwiseCollision =>
        /\ backtracks <= DomainProductFrom(1)
        /\ pc # "raised"
        /\ pc = "done" => result = NoSolution

\* solve has returned None on such an instance with three variables, all with
\* candidates, after backtracks in its last attempt
CollisionBoundWitness ==
    /\ PairwiseCollision
    /\ pc = "done"
    /\ result = NoSolution
    /\ Len(variables) >= 3
    /\ \A v \in DOMAIN domains : Len(domains[v]) >= 2
    /\ backtracks >= 2

-----------------------------------------------------------------------------
(* The evaluator *)

\* the Assignments of a list that repeat the key of an earlier one
Surplus(lst, key(_)) ==
    Cardinality({i \in DOMAIN lst : \E j \in 1..(i - 1) : key(lst[j]) = key(lst[i])})

\* the list the evaluator was given
EvaluatedList ==
    IF pc = "evaluated" THEN result.tt.assignments ELSE timetable.assignments

\* C18: the evaluator reports hard_constraint_violations = 0 for every
\* Timetable returned by solve; in general the value is the number of surplus
\* Assignments sharing an (instructor, slot), a (room, slot) or a
\* (section, slot) pair.
HardViolationCount ==
    /\ pc = "evaluated" => metrics.hard_constraint_violations = 0
    /\ pc \in {"evaluated", "reported"} =>
          metrics.hard_constraint_violations
              = Surplus(EvaluatedList, LAMBDA a : <<a.instructor, a.time_slot>>)
                  + Surplus(EvaluatedList, LAMBDA a : <<a.room, a.time_slot>>)
                  + Surplus(EvaluatedList, LAMBDA a : <<a.section_id, a.time_slot>>)

\* the evaluator has counted a list in which three Assignments share an
\* instructor and a slot
HardViolationCountWitness ==
    /\ pc = "reported"
    /\ Len(timetable.assignments) = 3
    /\ \A i \in 1..3 :
          /\ timetable.assignments[i].instructor = "PROF1"
          /\ timetable.assignments[i].time_slot = "T1"
    /\ metrics.hard_constraint_violations >= 2

-----------------------------------------------------------------------------
(* The normalisation steps of the constructor *)

\* a step is a construction of the solver
Construction == run' = run + 1

\* C19: room promotion. If the input has no room of type Classroom, exactly
\* the first N = min(20, number of Lab rooms) Lab rooms in input order get type
\* Classroom and every other room keeps its type; if the input has at least
\* one Classroom, no room's type changes. With no classroom and 25 labs, a
\* classroom course then has exactly 20 eligible rooms.
RoomPromotionLaw ==
    [][Construction =>
          LET labs       == {i \in DOMAIN rooms : rooms[i].type = "Lab"}
              N          == IF Cardinality(labs) < 20 THEN Cardinality(labs) ELSE 20
              promoted   == {i \in labs : Cardinality({j \in labs : j < i}) < N}
              classrooms == {i \in DOMAIN rooms : rooms[i].type = "Classroom"}
          IN  /\ DOMAIN rooms' = DOMAIN rooms
              /\ \A i \in DOMAIN rooms : rooms'[i].id = rooms[i].id
              /\ classrooms = {} =>
                    /\ Cardinality(promoted) = N
                    /\ \A i \in DOMAIN rooms :
                          rooms'[i].type
                              = IF i \in promoted THEN "Classroom" ELSE rooms[i].type
              /\ classrooms # {} => rooms' = rooms
              /\ (classrooms = {} /\ Cardinality(labs) = 25) =>
                    \A v \in DOMAIN domains' :
                        ~IsLabCourse(courses, v[2]) =>
                            /\ Len(SuitableRooms(courses, rooms', v[2])) = 20
                            /\ Cardinality({domains'[v][i][2] : i \in DOMAIN domains'[v]}) = 20
      ]_vars

\* the constructor has run on 25 labs and an auditorium: the twentieth lab,
\* at position 21, is a Classroom, the next lab and the auditorium are not
RoomPromotionLawWitness ==
    /\ run = 1
    /\ Len(rooms) = 26
    /\ rooms[21].id = "L20"
    /\ rooms[21].type = "Classroom"
    /\ rooms[22].type = "Lab"
    /\ rooms[11].type = "Auditorium"
    /\ \E v \in DOMAIN domains : Len(domains[v]) = 20

\* the id starts with one of the configured prefixes
HasPrefix(id) ==
    \E p \in DOMAIN INSTRUCTOR_PREFIXES :
        LET prefix == INSTRUCTOR_PREFIXES[p]
        IN  Len(id) >= Len(prefix) /\ SubSeq(id, 1, Len(prefix)) = prefix

\* occurrences of x in a list
Count(lst, x) == Cardinality({k \in DOMAIN lst : lst[k] = x})

\* C20: qualification augmentation. After normalisation every orphan course
\* id is in the qualified list of the first three instructors, in input
\* order, whose id matches one of the configured prefixes (of all of them when
\* fewer than three match); it is added at most once per instructor; the
\* qualified list of every other instructor is unchanged; when no instructor
\* id matches a prefix the step changes nothing.
QualificationAugmentation ==
    [][Construction =>
          LET matching == {i \in DOMAIN instructors : HasPrefix(instructors[i].id)}
              first3   == {i \in matching : Cardinality({j \in matching : j < i}) < 3}
          IN  /\ DOMAIN instructors' = DOMAIN instructors
              /\ \A i \in first3 : \A k \in DOMAIN MISSING_COURSES :
                    LET c   == MISSING_COURSES[k]
                        old == instructors[i].qualified_courses
                        new == instructors'[i].qualified_courses
                    IN  /\ InList(c, new)
                        /\ Count(new, c) = IF InList(c, old) THEN Count(old, c) ELSE 1
              /\ \A i \in DOMAIN instructors \ first3 :
                    instructors'[i].qualified_courses = instructors[i].qualified_courses
              /\ matching = {} => instructors' = instructors
      ]_vars

-----------------------------------------------------------------------------
(* Domain construction and variable selection *)

\* position in a list of records of the one that carries an id
PosOf(lst, id) == CHOOSE i \in DOMAIN lst : lst[i].id = id

\* (a1, a2, a3) comes before (b1, b2, b3) in the order of three nested loops
LexLess(a, b) ==
    \/ a[1] < b[1]
    \/ a[1] = b[1] /\ a[2] < b[2]
    \/ a[1] = b[1] /\ a[2] = b[2] /\ a[3] < b[3]

\* C21: domain construction. After a construction the domain of every
\* variable (section, course) holds exactly the triples (time slot, room,
\* instructor) whose room has the course's required class (Lab if the course
\* id is in the lab-course set or its type contains "Lab", else Classroom),
\* whose instructor is qualified for the course and whose slot's day is not in
\* the instructor's unavailable_days; the list runs with time slots outermost,
\* rooms next, instructors innermost, each in input order, and holds no
\* triple twice.
DomainConstruction ==
    [][Construction =>
          \A v \in DOMAIN domains' :
              LET d     == domains'[v]
                  type  == CourseOf(courses', v[2]).type
                  class == IF v[2] \in LAB_COURSES \/ Contains("Lab", type)
                             THEN "Lab" ELSE "Classroom"
                  triples ==
                      {<<time_slots'[t].id, rooms'[r].id, instructors'[i].id>> :
                          <<t, r, i>> \in
                              {x \in (DOMAIN time_slots') \X (DOMAIN rooms') \X (DOMAIN instructors') :
                                  /\ rooms'[x[2]].type = class
                                  /\ InList(v[2], instructors'[x[3]].qualified_courses)
                                  /\ ~InList(time_slots'[x[1]].day,
                                             instructors'[x[3]].unavailable_days)}}
                  rank(p) == <<PosOf(time_slots', d[p][1]), PosOf(rooms', d[p][2]),
                               PosOf(instructors', d[p][3])>>
              IN  /\ {d[p] : p \in DOMAIN d} = triples
                  /\ \A p \in 1..(Len(d) - 1) : LexLess(rank(p), rank(p + 1))
                  /\ Cardinality({d[p] : p \in DOMAIN d}) = Len(d)
      ]_vars

\* a constructed domain over two slots, two rooms and two instructors from
\* which the availability filter has taken two triples
DomainConstructionWitness ==
    /\ run = 1
    /\ \E v \in DOMAIN domains :
          /\ Len(domains[v]) = 6
          /\ domains[v][2] = <<"T1", "R1", "PROF2">>
          /\ domains[v][3] = <<"T1", "R2", "PROF1">>
          /\ domains[v][5] = <<"T2", "R1", "PROF1">>
          /\ domains[v][6] = <<"T2", "R2", "PROF1">>

\* v is the variable of the list u with the smallest domain, the first in u
\* among those of that size
FirstSmallest(u, v) ==
    \E i \in DOMAIN u :
        /\ u[i] = v
        /\ \A j \in DOMAIN u : Len(domains[u[j]]) >= Len(domains[v])
        /\ \A j \in 1..(i - 1) : Len(domains[u[j]]) > Len(domains[v])

\* C22: MRV selection. For every non-empty list of unassigned variables that
\* a call of backtrack holds, _select_next_variable returns the variable of
\* the list whose domain, as built at construction, is smallest, the first in
\* the list among those of equal smallest size; the variable a call works on
\* is that one.
MRVSelection ==
    \A k \in DOMAIN stack :
        Len(stack[k].unassigned) > 0 =>
            /\ FirstSmallest(stack[k].unassigned,
                             _select_next_variable(stack[k].unassigned))
            /\ stack[k].state = "loop" =>
                  stack[k].var = _select_next_variable(stack[k].unassigned)

\* a call works on the second variable of its list: the first has a larger
\* domain and the third one of the same size
MRVSelectionWitness ==
    /\ Searching
    /\ Len(stack) >= 1
    /\ Top.state = "loop"
    /\ Len(Top.unassigned) = 3
    /\ Top.var = Top.unassigned[2]
    /\ Len(domains[Top.unassigned[3]]) = Len(domains[Top.var])
    /\ Len(domains[Top.var]) > 0

-----------------------------------------------------------------------------
(* The timetable during the search *)

\* the ids that are keys of a schedule index of one of two timetables
KeysOf(s, t) == DOMAIN s \cup DOMAIN t

\* two timetables hold the same assignment list, the same map and, for every
\* id, the same set of slots in each schedule index
SameContent(s, t) ==
    /\ s.assignments = t.assignments
    /\ s.assignment_dict = t.assignment_dict
    /\ \A id \in KeysOf(s.instructor_schedule, t.instructor_schedule) :
          DDGet(s.instructor_schedule, id) = DDGet(t.instructor_schedule, id)
    /\ \A id \in KeysOf(s.room_schedule, t.room_schedule) :
          DDGet(s.room_schedule, id) = DDGet(t.room_schedule, id)
    /\ \A id \in KeysOf(s.section_schedule, t.section_schedule) :
          DDGet(s.section_schedule, id) = DDGet(t.section_schedule, id)

\* the running call of backtrack is at a return None: its value loop is
\* exhausted, or it has stopped at its entry on the budget
ReturningNone ==
    /\ Searching
    /\ Len(stack) >= 1
    /\ \/ Top.state = "loop" /\ Top.idx > Len(domains[Top.var])
       \/ /\ Top.state = "enter"
          /\ Len(Top.unassigned) > 0
          /\ backtracks > max_backtracks

\* C23: symmetric unwinding. Whenever a call of backtrack returns no
\* solution, the timetable's assignment list, map and three schedule indices
\* hold the same content as at the entry of that call; so when
\* backtracking_search returns no solution its timetable is empty, and a
\* timetable is only ever returned fully populated.
SymmetricUnwinding ==
    /\ ReturningNone => SameContent(timetable, Top.entry)
    /\ (ReturningNone /\ Len(stack) = 1) => SameContent(timetable, Timetable)
    /\ Returned => FullyPopulated

\* a call below the root returns None after its own values were added and
\* taken back
SymmetricUnwindingWitness ==
    /\ ReturningNone
    /\ Len(stack) = 2
    /\ Len(Top.unassigned) >= 2
    /\ Top.state = "loop"
    /\ Len(domains[Top.var]) >= 2
    /\ backtracks >= 2
    /\ Len(Top.entry.assignments) = 1

\* the caller of the running call is about to take back the Assignment it
\* had added
RemoveDue == ReturningNone /\ Len(stack) >= 2

\* C24: no internal inconsistency during the search. In every state reached
\* by a solve invocation (or a direct backtracking_search) the three schedule
\* indices agree with the assignment list (each id's slot set is the set of
\* slots of the listed Assignments that carry the id), the map holds exactly
\* the listed Assignments, and every remove_assignment call removes an
\* Assignment that is present: the most recently added one.
NoInternalInconsistency ==
    LET lst == timetable.assignments
    IN  /\ pc # "raised" \/ Len(variables) = 0
        /\ \A id \in DOMAIN timetable.instructor_schedule
                       \cup {lst[i].instructor : i \in DOMAIN lst} :
              DDGet(timetable.instructor_schedule, id) = SlotsOfInstructor(lst, id)
        /\ \A id \in DOMAIN timetable.room_schedule \cup {lst[i].room : i \in DOMAIN lst} :
              DDGet(timetable.room_schedule, id) = SlotsOfRoom(lst, id)
        /\ \A id \in DOMAIN timetable.section_schedule
                       \cup {lst[i].section_id : i \in DOMAIN lst} :
              DDGet(timetable.section_schedule, id) = SlotsOfSection(lst, id)
        /\ DOMAIN timetable.assignment_dict = {Key(lst[i]) : i \in DOMAIN lst}
        /\ \A i \in DOMAIN lst : timetable.assignment_dict[Key(lst[i])] = lst[i]
        /\ RemoveDue =>
              /\ Len(lst) >= 1
              /\ AssignmentOf(stack[Len(stack) - 1]) = lst[Len(lst)]
              /\ remove_assignment(timetable, lst[Len(lst)]).raised = ""

\* a remove_assignment is due on a list of two Assignments after earlier
\* backtracks
NoInternalInconsistencyWitness ==
    /\ RemoveDue
    /\ Len(timetable.assignments) = 2
    /\ backtracks >= 1

\* a step is one iteration of the value loop, on the candidate at the cursor
ValueTried == assignments_tried' = assignments_tried + 1

\* C25: the consistency check is a pure predicate. A call of
\* _is_consistent_with_load_balancing, whatever it returns, leaves the
\* timetable's assignment list, map and three schedule indices unchanged; it
\* returns true exactly when the candidate's slot is in none of the schedule
\* sets of its instructor, room and section and fewer than 55 listed
\* Assignments fall on the candidate's day.
ConsistencyCheckPure ==
    [][ValueTried =>
          LET a   == AssignmentOf(Top)
              yes == /\ a.time_slot \notin DDGet(timetable.instructor_schedule, a.instructor)
                     /\ a.time_slot \notin DDGet(timetable.room_schedule, a.room)
                     /\ a.time_slot \notin DDGet(timetable.section_schedule, a.section_id)
                     /\ OnDay(timetable.assignments, SlotOf(a.time_slot).day) < 55
          IN  /\ (verdict' = "ok") <=> yes
              /\ verdict' = "ok" => timetable' = add_assignment(timetable, a)
              /\ verdict' # "ok" => timetable' = timetable
      ]_vars

\* C26: the telemetry counters. In every state of a backtracking_search
\* invocation, backtracks is the number of remove_assignment calls made so
\* far, assignments_tried the number of iterations of the value loop started
\* so far, and the add_assignment calls made so far less backtracks is the
\* length of the assignment list; hence backtracks <= assignments_tried.
TelemetryCounters ==
    Searching =>
        /\ backtracks = calls.remove
        /\ assignments_tried = calls.loop
        /\ calls.add - backtracks = Len(timetable.assignments)
        /\ backtracks <= assignments_tried

\* a search that has rejected a value, backtracked twice and holds an
\* Assignment
TelemetryCountersWitness ==
    /\ Searching
    /\ backtracks >= 2
    /\ assignments_tried > calls.add
    /\ Len(timetable.assignments) >= 1

\* a step is a call of evaluate_solution
Evaluation == pc' \in {"evaluated", "reported"} /\ pc' # pc

\* C27: the evaluator is read-only. evaluate_solution leaves the Timetable's
\* assignment list (content and order), its map and its three schedule
\* indices as they were, on the Timetable solve() returned and on any other.
EvaluatorReadOnly ==
    [][Evaluation => timetable' = timetable /\ result' = result]_vars

\* an evaluated Timetable whose list is not in the order of the soft pass's
\* sort
EvaluatorReadOnlyWitness ==
    /\ pc = "reported"
    /\ Len(timetable.assignments) >= 2
    /\ sort(timetable.assignments) # timetable.assignments

\* minutes after midnight at which an Assignment starts
StartMinute(a) ==
    LET text     == SlotOf(a.time_slot).start_time
        colon    == IF SubSeq(text, 2, 2) = ":" THEN 2 ELSE 3
        digit(i) == ord(SubSeq(text, i, i)) - ord("0")
    IN  60 * hour(text) + 10 * digit(colon + 1) + digit(colon + 2)

\* entries i and j of a list belong to one section and one day
SameSectionDay(lst, i, j) ==
    /\ lst[i].section_id = lst[j].section_id
    /\ SlotOf(lst[i].time_slot).day = SlotOf(lst[j].time_slot).day

\* entries i and j are time-adjacent: of one section and one day, i before j
\* in time, and no entry of that section and day starts between them
TimeAdjacent(lst, i, j) ==
    /\ SameSectionDay(lst, i, j)
    /\ StartMinute(lst[i]) < StartMinute(lst[j])
    /\ ~\E k \in DOMAIN lst :
          /\ SameSectionDay(lst, i, k)
          /\ StartMinute(lst[i]) < StartMinute(lst[k])
          /\ StartMinute(lst[k]) < StartMinute(lst[j])

\* no section has two entries that start at the same time of the same day
NoSimultaneous(lst) ==
    \A i, j \in DOMAIN lst :
        i # j /\ SameSectionDay(lst, i, j) => StartMinute(lst[i]) # StartMinute(lst[j])

\* C28: soft_violations is the floor of A + B + C/2, with A the Assignments
\* whose start hour is below 8 or above 18, B the sections whose Assignments
\* span fewer than 2 distinct days and C the pairs of same-day, time-adjacent
\* Assignments of one section that are in different rooms (stated here for
\* Timetables in which no section has two Assignments at one time).
SoftViolationCount ==
    LET lst == timetable.assignments
        A == Cardinality({i \in DOMAIN lst :
                 StartMinute(lst[i]) < 8 * 60 \/ StartMinute(lst[i]) >= 19 * 60})
        B == Cardinality({sec \in {lst[i].section_id : i \in DOMAIN lst} :
                 Cardinality({SlotOf(lst[i].time_slot).day :
                                 i \in {k \in DOMAIN lst : lst[k].section_id = sec}}) < 2})
        C == Cardinality({p \in (DOMAIN lst) \X (DOMAIN lst) :
                 /\ TimeAdjacent(lst, p[1], p[2])
                 /\ lst[p[1]].room # lst[p[2]].room})
    IN  pc \in {"evaluated", "reported"} /\ NoSimultaneous(lst) =>
            metrics.soft_constraint_violations = (2 * A + 2 * B + C) \div 2

\* C29: in the interactive mode, after any sequence of menu choices, Show
\* Performance Report prints a report only if a timetable has been generated
\* and is held as current_timetable; when none is held (no generation has
\* succeeded, or the latest one failed) it prints the message that no
\* timetable has been generated yet, as Show Timetable does.
PerformanceReportGuard ==
    ui.choice = "4" =>
        /\ ui.output = "report" => ui.current_timetable.kind = "Timetable"
        /\ ui.current_timetable.kind # "Timetable" =>
              ui.output = "no timetable generated yet"

\* C30: normalisation is idempotent. A solver built over entity records that
\* an earlier solver has normalised changes no room type and no instructor's
\* qualified list, and has the same variables and the same domains as the
\* earlier one.
NormalisationIdempotent ==
    [][Construction /\ run >= 1 =>
          /\ rooms' = rooms
          /\ instructors' = instructors
          /\ variables' = variables
          /\ domains' = domains
      ]_vars

\* a second solver over records in which the first had promoted the lab L1
\* and appended a missing course to an instructor's list
NormalisationIdempotentWitness ==
    /\ run = 2
    /\ pc = "constructed"
    /\ \E i \in DOMAIN rooms : rooms[i].id = "L1" /\ rooms[i].type = "Classroom"
    /\ \E i \in DOMAIN instructors :
          \E k \in DOMAIN MISSING_COURSES :
              InList(MISSING_COURSES[k], instructors[i].qualified_courses)

\* C31: termination. For every input and every max_backtracks, each
\* backtracking_search invocation eventually returns, solve() eventually
\* returns a Timetable or no solution, and the recursion is never deeper than
\* the number of variables plus one.
Termination ==
    /\ [](Len(stack) <= Len(variables) + 1)
    /\ Searching ~> ~Searching
    /\ (pc \in {"solve", "search"}) ~> (pc = "done" /\ result.kind \in {"Timetable", "None"})

\* a search at its greatest depth, on two variables or more, after a backtrack
TerminationWitness ==
    /\ Searching
    /\ Len(variables) >= 2
    /\ Len(stack) = Len(variables) + 1
    /\ backtracks >= 1

====
